---- MODULE Spec2Model ----
(***************************************************************************)
(* Model of the CapCut automation pipeline (src/timeline_test.js): the     *)
(* editor registry (editors.json), the shared automation browser, and the  *)
(* job driver runAutomationPipeline with its failure handler.              *)
(*                                                                         *)
(* One job = one invocation of runAutomationPipeline.  All jobs run in one *)
(* Node.js process: a step of the model is the code that runs between two  *)
(* awaits whose promise is settled by the outside world (browser, timers). *)
(* A call of an async function whose body holds no await                   *)
(* (updateEditorStatus) runs synchronously inside the caller's step.       *)
(***************************************************************************)
EXTENDS Integers, Sequences, FiniteSets, TLC

\* ---- bounds -------------------------------------------------------------
MaxJobs == 3        \* invocations of runAutomationPipeline
NumEditors == 2     \* records in editors.json
MaxBrowsers == 2    \* browsers launched in one behaviour
MaxLog == 2         \* registry calls remembered by the registry specification
MaxLen == 3         \* characters of a filename given to normalizeFilename

\* ---- program constants --------------------------------------------------
NoBrowser == 0      \* null (automationBrowser, browser)

Jobs == 1..MaxJobs

VARIABLES
    editors,            \* contents of editors.json: sequence of [url, status]
    automationBrowser,  \* the module-level browser handle
    nBrowsers,          \* browsers launched so far (ids 1..nBrowsers)
    connected,          \* connected[b]: browser.isConnected()
    pages,              \* pages[b]: browser.pages(), in creation order
    pc,                 \* pc[j]: the await job j is suspended at
    editorUrl,          \* local editorUrl of job j (<<>> = null)
    browser,            \* local browser of job j
    err,                \* error caught by the job's catch block
    raised,             \* error the job's promise was rejected with
    probed,             \* browser whose version() job j sent / saw succeed
    launched,           \* browser launched by job j
    closeTarget,        \* owner of the page job j passed to closeEditorTab
    leases,             \* leases[i]: jobs that leased editor i since its last release
    regLog,             \* registry specification: the last calls of updateEditorStatus
    stage,              \* workflow: the stage of lines 440-1272 that is executing
    flowErr,            \* workflow: the error the workflow threw
    elapsedTime,        \* uploadVideo: elapsedTime of the overlay poll (ms)
    overlay,            \* uploadVideo: what the last poll saw in the media item
    strategy,           \* index of the locator strategy being attempted
    tried,              \* strategies attempted so far for the current action
    located,            \* the action last located and the strategy that did it
    missed,             \* actions for which every locator strategy failed
    trim,               \* canvas box, handle, drag distance, drags made, right click
    naming,             \* export: videoFileName, the link's names, fileName
    download,           \* download waits: clocks, lastSize, stableCount, result
    cutout,             \* waitForFunction on the cutout switch: clock, switch last seen
    videoExists,        \* fs.existsSync(videoPath)
    catalog,            \* statuses passed to the catalog's status update, in call order
    response,           \* status code the caller of the pipeline answered with (0: none)
    failedAt,           \* ghost: the stage in which the workflow's error was thrown
    names               \* filename specification: the inputs and their normal forms

jobVars == <<editors, automationBrowser, nBrowsers, connected, pages, pc, editorUrl,
             browser, err, raised, probed, launched, closeTarget, leases, regLog>>

flowVars == <<stage, flowErr, elapsedTime, overlay, strategy, tried, located, missed,
              trim, naming, download, cutout, videoExists, catalog, response, failedAt>>

vars == <<jobVars, flowVars, names>>

browserVars == <<automationBrowser, nBrowsers, connected, pages>>

\* ---- URLs ---------------------------------------------------------------
NoUrl == <<>>
EditorUrl(i) == <<"capcut.com/editor", i>>
BlankUrl == <<"about:blank", 0>>
\* a capcut.com address that is no registry url (redirect, rewritten query)
OtherCapcutUrl == <<"capcut.com/redirected", 0>>
UnknownUrl == <<"capcut.com/editor", 0>>

\* the tab a freshly launched browser opens with
DefaultTab == [owner |-> 0, url |-> BlankUrl]

\* p.url().includes('capcut.com')
IncludesCapcut(u) == u[1] # "about:blank"

Statuses == {"available", "in-use"}

\* ---- the registry -------------------------------------------------------
\* editors.findIndex(editor => editor.url === url): the matching indexes
MatchingIndexes(eds, url) == {i \in DOMAIN eds : eds[i].url = url}

FirstIndex(S) == CHOOSE i \in S : \A k \in S : i <= k

UpdateEditorStatusNoWrite(eds, url, status) == eds

UpdateEditorStatusStale(eds, url, status) ==
    [i \in DOMAIN eds |->
        IF eds[i].url = url THEN [eds[i] EXCEPT !.status = status]
        ELSE [eds[i] EXCEPT !.status = "available"]]

UpdateEditorStatusAll(eds, url, status) ==
    IF MatchingIndexes(eds, url) = {} THEN eds
    ELSE [i \in DOMAIN eds |-> [eds[i] EXCEPT !.status = status]]

UpdateEditorStatusMoveLast(eds, url, status) ==
    IF MatchingIndexes(eds, url) = {} THEN eds
    ELSE LET i == FirstIndex(MatchingIndexes(eds, url))
         IN  Append(SubSeq(eds, 1, i - 1) \o SubSeq(eds, i + 1, Len(eds)),
                    [url |-> url, status |-> status])

\* updateEditorStatus(url, status): the list in editors.json after the call
UpdateEditorStatus(eds, url, status) ==
    IF MatchingIndexes(eds, url) = {} THEN eds
    ELSE [eds EXCEPT ![FirstIndex(MatchingIndexes(eds, url))].status = status]

\* does updateEditorStatus(url, status) raise an error to its caller?
\* (the whole body is inside try/catch and the current status is never read)
UpdateEditorStatusThrows(eds, url, status) == FALSE

\* editors.filter(editor => editor.status === 'available')
AvailableEditors(eds) == SelectSeq(eds, LAMBDA e : e.status = "available")

SelectedEditorLast(avail) == avail[Len(avail)]

\* const selectedEditor = availableEditors[0]
SelectedEditor(avail) == avail[1]

StatusOf(eds, url) == eds[FirstIndex(MatchingIndexes(eds, url))].status

\* ghost: editor indexes whose lease set is cleared by updateEditorStatus(url, 'available')
ReleaseLeases(ls, eds, url) ==
    [i \in DOMAIN ls |-> IF i \in MatchingIndexes(eds, url) THEN {} ELSE ls[i]]

\* ---- pages --------------------------------------------------------------
HasPage(ps, owner) == \E i \in DOMAIN ps : ps[i].owner = owner

PageUrl(ps, owner) == ps[CHOOSE i \in DOMAIN ps : ps[i].owner = owner].url

SetPageUrl(ps, owner, u) ==
    [i \in DOMAIN ps |-> IF ps[i].owner = owner THEN [ps[i] EXCEPT !.url = u] ELSE ps[i]]

\* page.close(): the page leaves browser.pages()
ClosePage(ps, owner) == SelectSeq(ps, LAMBDA p : p.owner # owner)

CapcutPages(ps) == {i \in DOMAIN ps : IncludesCapcut(ps[i].url)}

\* pages.find(p => p.url().includes('capcut.com')): index of the first such page
CurrentPage(ps) == FirstIndex(CapcutPages(ps))

\* ---- initial states -----------------------------------------------------
Registries ==
    {eds \in [1..NumEditors -> [url : {EditorUrl(i) : i \in 1..NumEditors}, status : Statuses]] :
        \A i \in 1..NumEditors : eds[i].url = EditorUrl(i)}

InitRest ==
    /\ automationBrowser = NoBrowser
    /\ nBrowsers = 0
    /\ connected = [b \in 1..MaxBrowsers |-> FALSE]
    /\ pages = [b \in 1..MaxBrowsers |-> <<>>]
    /\ pc = [j \in Jobs |-> "idle"]
    /\ editorUrl = [j \in Jobs |-> NoUrl]
    /\ browser = [j \in Jobs |-> NoBrowser]
    /\ err = [j \in Jobs |-> "none"]
    /\ raised = [j \in Jobs |-> "none"]
    /\ probed = [j \in Jobs |-> NoBrowser]
    /\ launched = [j \in Jobs |-> NoBrowser]
    /\ closeTarget = [j \in Jobs |-> 0]
    /\ leases = [i \in 1..NumEditors |-> {}]
    /\ regLog = <<>>

\* no workflow is being followed and no filename is being normalised
Unseen == [present |-> FALSE, width |-> -1, height |-> -1]

NoTrim == [scanned |-> FALSE, canvasX2 |-> 0, canvasWidth |-> 0, handleX |-> 0,
           handleY |-> 0, dragDistance |-> 0, drags |-> 0, dragFrom |-> <<>>,
           dragTo |-> <<>>, rightClickX2 |-> -1]

NoNaming == [videoFileName |-> <<>>, link |-> <<>>, fileName |-> <<>>]

NoDownload == [phase |-> "none", exportElapsed |-> 0, waitElapsed |-> 0, lastSize |-> -1,
               stableCount |-> 0, filesBefore |-> {}, file |-> <<>>, ready |-> FALSE,
               by |-> "none", written |-> FALSE, sizeFrom |-> <<>>, samePoll |-> FALSE]

NoSwitch == [checked |-> FALSE, loading |-> FALSE]

NoCutout == [elapsed |-> 0, switch |-> NoSwitch]

\* the workflow state of a run that has not reached the input file check
FlowAtRest ==
    /\ stage = "idle"
    /\ flowErr = "none"
    /\ elapsedTime = 0
    /\ overlay = Unseen
    /\ strategy = 0
    /\ tried = <<>>
    /\ located = <<>>
    /\ missed = {}
    /\ trim = NoTrim
    /\ naming = NoNaming
    /\ download = NoDownload
    /\ cutout = NoCutout
    /\ catalog = <<>>
    /\ response = 0
    /\ failedAt = "none"

FlowIdle ==
    /\ FlowAtRest
    /\ videoExists = TRUE

NamesIdle == names = <<>>

\* editors.json as provisioned: every editor available
Init ==
    /\ editors = [i \in 1..NumEditors |-> [url |-> EditorUrl(i), status |-> "available"]]
    /\ InitRest
    /\ FlowIdle
    /\ NamesIdle

\* ---- the end of a run ---------------------------------------------------
\* the run's promise settles: its locals are gone
Settle(j, state, e) ==
    /\ pc' = [pc EXCEPT ![j] = state]
    /\ raised' = [raised EXCEPT ![j] = e]
    /\ err' = [err EXCEPT ![j] = "none"]
    /\ editorUrl' = [editorUrl EXCEPT ![j] = NoUrl]
    /\ browser' = [browser EXCEPT ![j] = NoBrowser]
    /\ probed' = [probed EXCEPT ![j] = NoBrowser]
    /\ launched' = [launched EXCEPT ![j] = NoBrowser]
    /\ closeTarget' = [closeTarget EXCEPT ![j] = 0]

\* ---- the catch block of runAutomationPipeline ---------------------------
SkipsHandlerOtherErrors(e, b) == e # "NoEditors" /\ b = NoBrowser

SkipsHandlerNever(e, b) == FALSE

\* lines 1281, 1286, 1295: the catch block skips the screenshot and the tab
\* cleanup for 'No editors available' and when browser is null
SkipsHandler(e, b) == e = "NoEditors" \/ b = NoBrowser

\* throw of error e while the local browser is b: either the catch block
\* rethrows at once, or it awaits browser.pages()
Throw(j, e, b) ==
    IF SkipsHandler(e, b)
    THEN Settle(j, "failed", e)
    ELSE /\ pc' = [pc EXCEPT ![j] = "catch"]
         /\ err' = [err EXCEPT ![j] = e]
         /\ browser' = [browser EXCEPT ![j] = b]
         /\ UNCHANGED <<raised, editorUrl, probed, launched, closeTarget>>

\* ---- runAutomationPipeline ----------------------------------------------
\* line 382: automationBrowser && automationBrowser.isConnected()
CanReuse == automationBrowser # NoBrowser /\ connected[automationBrowser]

\* lines 359-396: read the registry, pick the first available editor, mark it
\* in-use (one synchronous block: updateEditorStatus holds no await); then the
\* reuse check, which sends version() or starts puppeteer.launch
Admit(j) ==
    /\ pc[j] = "idle"
    /\ \A k \in Jobs : k < j => pc[k] # "idle"
    /\ LET availableEditors == AvailableEditors(editors)
       IN  IF Len(availableEditors) = 0
           THEN /\ Throw(j, "NoEditors", browser[j])
                /\ UNCHANGED <<editors, leases>>
           ELSE LET u == SelectedEditor(availableEditors).url
                IN  /\ editorUrl' = [editorUrl EXCEPT ![j] = u]
                    /\ editors' = UpdateEditorStatus(editors, u, "in-use")
                    /\ leases' = [i \in DOMAIN leases |->
                                    IF i \in MatchingIndexes(editors, u)
                                    THEN leases[i] \cup {j} ELSE leases[i]]
                    /\ pc' = [pc EXCEPT ![j] = IF CanReuse THEN "probe" ELSE "launch"]
                    /\ probed' = [probed EXCEPT ![j] =
                                    IF CanReuse THEN automationBrowser ELSE NoBrowser]
                    /\ UNCHANGED <<err, raised, browser, launched, closeTarget>>
    /\ UNCHANGED <<browserVars, regLog, flowVars, names>>

\* line 387: browser = automationBrowser, read after the await of version()
ReusedBrowser(j) == automationBrowser

\* lines 384-396: version() settles
ProbeResolve(j) ==
    /\ pc[j] = "probe"
    /\ \E ok \in BOOLEAN :
          IF ok /\ connected[probed[j]]
          THEN /\ browser' = [browser EXCEPT ![j] = ReusedBrowser(j)]
               /\ pc' = [pc EXCEPT ![j] = IF ReusedBrowser(j) # NoBrowser
                                          THEN "newPage" ELSE "launch"]
               /\ UNCHANGED <<automationBrowser, probed>>
          ELSE /\ automationBrowser' = NoBrowser
               /\ probed' = [probed EXCEPT ![j] = NoBrowser]
               /\ pc' = [pc EXCEPT ![j] = "launch"]
               /\ UNCHANGED browser
    /\ UNCHANGED <<editors, nBrowsers, connected, pages, editorUrl, err, raised,
                   launched, closeTarget, leases, regLog, flowVars, names>>

\* lines 418-422: puppeteer.launch settles
LaunchResolve(j) ==
    /\ pc[j] = "launch"
    /\ \E ok \in BOOLEAN :
          IF ok /\ nBrowsers < MaxBrowsers
          THEN LET b == nBrowsers + 1
               IN  /\ nBrowsers' = b
                   /\ connected' = [connected EXCEPT ![b] = TRUE]
                   /\ pages' = [pages EXCEPT ![b] = <<DefaultTab>>]
                   /\ browser' = [browser EXCEPT ![j] = b]
                   /\ automationBrowser' = b
                   /\ launched' = [launched EXCEPT ![j] = b]
                   /\ pc' = [pc EXCEPT ![j] = "newPage"]
                   /\ UNCHANGED <<err, raised, editorUrl, probed, closeTarget>>
          ELSE /\ Throw(j, "launch", browser[j])
               /\ UNCHANGED browserVars
    /\ UNCHANGED <<editors, leases, regLog, flowVars, names>>

\* lines 422-433: newPage, CDP session, viewport; page.goto is started
NewPageResolve(j) ==
    /\ pc[j] = "newPage"
    /\ LET b == browser[j]
       IN  \E ok \in BOOLEAN :
              IF ok /\ connected[b]
              THEN /\ pages' = [pages EXCEPT ![b] = Append(@, [owner |-> j, url |-> BlankUrl])]
                   /\ pc' = [pc EXCEPT ![j] = "goto"]
                   /\ UNCHANGED <<err, raised, editorUrl, browser, probed, launched,
                                  closeTarget>>
              ELSE /\ Throw(j, "NavigationFailed", b)
                   /\ UNCHANGED pages
    /\ UNCHANGED <<editors, automationBrowser, nBrowsers, connected, leases, regLog, flowVars, names>>

\* lines 433-440: page.goto settles; then the input file check
GotoResolve(j) ==
    /\ pc[j] = "goto"
    /\ LET b == browser[j]
       IN  \E ok \in BOOLEAN, fileExists \in BOOLEAN :
              IF ok /\ connected[b] /\ HasPage(pages[b], j)
              THEN /\ \E u \in {editorUrl[j], OtherCapcutUrl} :
                         pages' = [pages EXCEPT ![b] = SetPageUrl(@, j, u)]
                   /\ IF fileExists
                      THEN /\ pc' = [pc EXCEPT ![j] = "workflow"]
                           /\ UNCHANGED <<err, raised, editorUrl, browser, probed,
                                          launched, closeTarget>>
                      ELSE Throw(j, "VideoFileNotFound", b)
              ELSE /\ fileExists
                   /\ \E u \in {BlankUrl, editorUrl[j]} :
                         pages' = [pages EXCEPT ![b] = SetPageUrl(@, j, u)]
                   /\ Throw(j, "NavigationFailed", b)
    /\ UNCHANGED <<editors, automationBrowser, nBrowsers, connected, leases, regLog, flowVars, names>>

\* closeEditorTab(browser, page), lines 63-69: the registry key is page.url()
CloseEditorTabKey(ps, owner) == PageUrl(ps, owner)

\* lines 440-1275: the workflow stages settle; on success closeEditorTab is called
WorkflowResolve(j) ==
    /\ pc[j] = "workflow"
    /\ LET b == browser[j]
       IN  \E ok \in BOOLEAN :
              IF ok /\ connected[b] /\ HasPage(pages[b], j)
              THEN LET currentUrl == CloseEditorTabKey(pages[b], j)
                   IN  /\ editors' = UpdateEditorStatus(editors, currentUrl, "available")
                       /\ leases' = ReleaseLeases(leases, editors, currentUrl)
                       /\ closeTarget' = [closeTarget EXCEPT ![j] = j]
                       /\ pc' = [pc EXCEPT ![j] = "closing"]
                       /\ UNCHANGED <<err, raised, editorUrl, browser, probed, launched>>
              ELSE /\ Throw(j, "StageFailed", b)
                   /\ UNCHANGED <<editors, leases>>
    /\ UNCHANGED <<browserVars, regLog, flowVars, names>>

\* lines 72-78 and 1277: page.close() settles, the run returns
CloseResolve(j) ==
    /\ pc[j] = "closing"
    /\ pages' = [pages EXCEPT ![browser[j]] = ClosePage(@, closeTarget[j])]
    /\ Settle(j, "done", "none")
    /\ UNCHANGED <<editors, automationBrowser, nBrowsers, connected, leases, regLog, flowVars, names>>

\* lines 1284-1312: with a browser (lines 1286, 1295), browser.pages() and
\* pages[0].screenshot(), where an error leaves the catch block; then the tab
\* cleanup, whose errors are caught
CatchHandler(j) ==
    /\ pc[j] = "catch"
    /\ LET b == browser[j]
           ps == pages[b]
       IN  \E shot \in BOOLEAN :
              IF b = NoBrowser
              THEN /\ Settle(j, "failed", err[j])
                   /\ UNCHANGED <<editors, leases>>
              ELSE IF ~shot /\ (Len(ps) > 0 \/ ~connected[b])
              THEN /\ Settle(j, "failed", "HandlerError")
                   /\ UNCHANGED <<editors, leases>>
              ELSE IF connected[b] /\ Len(ps) > 1 /\ CapcutPages(ps) # {}
              THEN LET p == ps[CurrentPage(ps)]
                       currentUrl == CloseEditorTabKey(ps, p.owner)
                   IN  /\ editors' = UpdateEditorStatus(editors, currentUrl, "available")
                       /\ leases' = ReleaseLeases(leases, editors, currentUrl)
                       /\ closeTarget' = [closeTarget EXCEPT ![j] = p.owner]
                       /\ pc' = [pc EXCEPT ![j] = "cleanupClose"]
                       /\ UNCHANGED <<err, raised, editorUrl, browser, probed, launched>>
              ELSE /\ Settle(j, "failed", err[j])
                   /\ UNCHANGED <<editors, leases>>
    /\ UNCHANGED <<browserVars, regLog, flowVars, names>>

\* lines 72-78 and 1312: page.close() settles, the original error is rethrown
CleanupCloseResolve(j) ==
    /\ pc[j] = "cleanupClose"
    /\ pages' = [pages EXCEPT ![browser[j]] = ClosePage(@, closeTarget[j])]
    /\ Settle(j, "failed", err[j])
    /\ UNCHANGED <<editors, automationBrowser, nBrowsers, connected, leases, regLog, flowVars, names>>

\* ---- the environment ----------------------------------------------------
\* the browser process exits or its connection drops
BrowserDisconnect(b) ==
    /\ b <= nBrowsers
    /\ connected[b]
    /\ connected' = [connected EXCEPT ![b] = FALSE]
    /\ UNCHANGED <<editors, automationBrowser, nBrowsers, pages, pc, editorUrl, browser,
                   err, raised, probed, launched, closeTarget, leases, regLog, flowVars, names>>

Next ==
    \/ \E j \in Jobs : Admit(j)
    \/ \E j \in Jobs : ProbeResolve(j)
    \/ \E j \in Jobs : LaunchResolve(j)
    \/ \E j \in Jobs : NewPageResolve(j)
    \/ \E j \in Jobs : GotoResolve(j)
    \/ \E j \in Jobs : WorkflowResolve(j)
    \/ \E j \in Jobs : CloseResolve(j)
    \/ \E j \in Jobs : CatchHandler(j)
    \/ \E j \in Jobs : CleanupCloseResolve(j)
    \/ \E b \in 1..MaxBrowsers : BrowserDisconnect(b)

Spec == Init /\ [][Next]_vars

\* ---- the registry on its own --------------------------------------------
\* updateEditorStatus applied to any registry, url and status; regLog keeps
\* the last MaxLog calls
InitReg ==
    /\ editors \in Registries
    /\ InitRest
    /\ FlowIdle
    /\ NamesIdle

RegCall(url, status) ==
    /\ editors' = UpdateEditorStatus(editors, url, status)
    /\ regLog' = (IF Len(regLog) < MaxLog THEN regLog ELSE Tail(regLog)) \o
                 <<[url |-> url, status |-> status, before |-> editors,
                    after |-> UpdateEditorStatus(editors, url, status),
                    threw |-> UpdateEditorStatusThrows(editors, url, status)]>>
    /\ UNCHANGED <<automationBrowser, nBrowsers, connected, pages, pc, editorUrl,
                   browser, err, raised, probed, launched, closeTarget, leases,
                   flowVars, names>>

NextReg ==
    \E url \in {EditorUrl(i) : i \in 1..NumEditors} \cup {UnknownUrl}, status \in Statuses :
        RegCall(url, status)

SpecReg == InitReg /\ [][NextReg]_vars

\* ---- the upload endpoint (src/upload.js) ----------------------------------
\* A request is a job: the handler of POST /upload either answers at once or
\* calls runAutomationPipeline and answers when its promise settles.
UploadBlockedNever(eds) == FALSE

\* upload.js lines 27-31: availableEditors.length === 0
UploadBlocked(eds) == Len(AvailableEditors(eds)) = 0

\* the status code of the response once the request is in state p (0: no
\* response yet); upload.js lines 36, 58, 95 and 109
HttpStatus(p) ==
    CASE p = "locked" -> 423
      [] p = "nofile" -> 400
      [] p = "done" -> 200
      [] p = "failed" -> 500
      [] OTHER -> 0

\* upload.js lines 21-81 and the start of runAutomationPipeline up to its
\* first pending await: the gate, the test of req.file, then the admission.
\* No await lies between the gate and the admission.
PostUpload(j) ==
    /\ pc[j] = "idle"
    /\ \A k \in Jobs : k < j => pc[k] # "idle"
    /\ \E hasFile \in BOOLEAN :
          IF UploadBlocked(editors) \/ ~hasFile
          THEN /\ pc' = [pc EXCEPT ![j] = IF UploadBlocked(editors)
                                          THEN "locked" ELSE "nofile"]
               /\ UNCHANGED <<editors, browserVars, editorUrl, browser, err, raised,
                              probed, launched, closeTarget, leases, regLog, flowVars,
                              names>>
          ELSE Admit(j)

NextUpload ==
    \/ \E j \in Jobs : PostUpload(j)
    \/ \E j \in Jobs : ProbeResolve(j)
    \/ \E j \in Jobs : LaunchResolve(j)
    \/ \E j \in Jobs : NewPageResolve(j)
    \/ \E j \in Jobs : GotoResolve(j)
    \/ \E j \in Jobs : WorkflowResolve(j)
    \/ \E j \in Jobs : CloseResolve(j)
    \/ \E j \in Jobs : CatchHandler(j)
    \/ \E j \in Jobs : CleanupCloseResolve(j)
    \/ \E b \in 1..MaxBrowsers : BrowserDisconnect(b)

SpecUpload == Init /\ [][NextUpload]_vars

\* ---- filenames (lines 1177-1214) ----------------------------------------
\* A filename is a sequence of characters, each standing for its class:
\*   "A" an upper-case letter, "a" its lower-case form, "1" a digit,
\*   "_" underscore, " " whitespace, "." dot, "-" hyphen,
\*   "!" punctuation outside [\w\s.-] in the basic plane,
\*   "E" an emoji of one of the six ranges of lines 1179-1184,
\*   "X" a symbol above U+FFFF outside these ranges (two UTF-16 units),
\*   "mp4", "txt" the letters of an extension.
Chars == {"A", "a", "1", "_", " ", ".", "-", "!", "E", "X"}

\* the characters the matcher is exercised with
MatchChars == {"A", "a", "_", "!", "E"}

RECURSIVE StringsOver(_, _)
StringsOver(cs, n) ==
    IF n = 0 THEN {<<>>}
    ELSE LET shorter == StringsOver(cs, n - 1)
         IN  shorter \cup {Append(s, c) : s \in {t \in shorter : Len(t) = n - 1}, c \in cs}

AllChars == Chars \cup {"mp4", "mov", "avi", "txt"}

\* s with every character c replaced by the sequence f[c]
RECURSIVE ReplaceEach(_, _)
ReplaceEach(s, f) ==
    IF s = <<>> THEN <<>> ELSE f[Head(s)] \o ReplaceEach(Tail(s), f)

\* lines 1179-1184: the six replaces with the u flag, one '_' per code point
ReplaceEmoji(s) ==
    ReplaceEach(s, [c \in AllChars |-> IF c = "E" THEN <<"_">> ELSE <<c>>])

\* line 1185: /[^\w\s.-]/g without the u flag, one '_' per UTF-16 unit
ReplaceSpecial(s) ==
    ReplaceEach(s, [c \in AllChars |-> IF c = "!" THEN <<"_">>
                                       ELSE IF c \in {"E", "X"} THEN <<"_", "_">>
                                       ELSE <<c>>])

\* line 1186: /_+/g -> '_'
RECURSIVE CollapseUnderscores(_)
CollapseUnderscores(s) ==
    IF Len(s) < 2 THEN s
    ELSE IF s[1] = "_" /\ s[2] = "_" THEN CollapseUnderscores(Tail(s))
    ELSE <<s[1]>> \o CollapseUnderscores(Tail(s))

\* line 1187: /^_|_$/g -> '': one leading and one trailing underscore
StripEnds(s) ==
    LET t == IF s # <<>> /\ s[1] = "_" THEN Tail(s) ELSE s
    IN  IF t # <<>> /\ t[Len(t)] = "_" THEN SubSeq(t, 1, Len(t) - 1) ELSE t

ToLowerCaseKeep(s) == s

\* line 1188
ToLowerCase(s) == ReplaceEach(s, [c \in AllChars |-> IF c = "A" THEN <<"a">> ELSE <<c>>])

normalizeFilenameStripFirst(filename) ==
    ToLowerCase(CollapseUnderscores(StripEnds(ReplaceSpecial(ReplaceEmoji(filename)))))

\* lines 1177-1189
normalizeFilename(filename) ==
    ToLowerCase(StripEnds(CollapseUnderscores(ReplaceSpecial(ReplaceEmoji(filename)))))

\* line 1206: file.endsWith('.mp4') || file.endsWith('.mov') || file.endsWith('.avi')
EndsWithVideoExt(file) ==
    /\ Len(file) >= 2
    /\ file[Len(file) - 1] = "."
    /\ file[Len(file)] \in {"mp4", "mov", "avi"}

\* .replace(/\.[^.]+$/, ''): the last dot and what follows it, when something does
StripExtension(name) ==
    LET dots == {i \in DOMAIN name : name[i] = "."}
    IN  IF dots = {} THEN name
        ELSE LET last == CHOOSE i \in dots : \A k \in dots : k <= i
             IN  IF last = Len(name) THEN name ELSE SubSeq(name, 1, last - 1)

\* UTF-16 units of a character
Units(c) == IF c \in {"mp4", "mov", "avi", "txt"} THEN 3 ELSE IF c = "X" THEN 2 ELSE 1

RECURSIVE Length(_)
Length(s) == IF s = <<>> THEN 0 ELSE Units(Head(s)) + Length(Tail(s))

\* s.substring(0, n), cut at a character boundary of the model
Substring(s, n) ==
    LET fits == {k \in 0..Len(s) : Length(SubSeq(s, 1, k)) <= n}
    IN  SubSeq(s, 1, CHOOSE k \in fits : \A m \in fits : m <= k)

\* s.includes(sub)
Includes(s, sub) ==
    \E i \in 0..(Len(s) - Len(sub)) : SubSeq(s, i + 1, i + Len(sub)) = sub

\* lines 1210-1212
MatchPrefix == 30

isMatch(normalizedFile, normalizedExpected) ==
    \/ Includes(normalizedFile, Substring(normalizedExpected, MatchPrefix))
    \/ Includes(normalizedExpected, Substring(normalizedFile, MatchPrefix))
    \/ normalizedFile = normalizedExpected

\* line 1191
NormalizedExpected(fileName) == normalizeFilename(StripExtension(fileName))

\* lines 1206-1214: is the directory entry file accepted for fileName?
FileMatches(file, fileName) ==
    /\ EndsWithVideoExt(file)
    /\ isMatch(normalizeFilename(StripExtension(file)), NormalizedExpected(fileName))

\* ---- the filename functions on their own ----------------------------------
InitNames ==
    /\ editors = [i \in 1..NumEditors |-> [url |-> EditorUrl(i), status |-> "available"]]
    /\ InitRest
    /\ FlowIdle
    /\ NamesIdle

\* normalizeFilename applied to x and to its own result
NormalizeInput(x) ==
    /\ names' = [op |-> "normalize", x |-> x, once |-> normalizeFilename(x),
                 twice |-> normalizeFilename(normalizeFilename(x))]
    /\ UNCHANGED <<jobVars, flowVars>>

\* the matcher applied to the expected name x.mp4 and the directory entry y.mp4
MatchInput(x, y) ==
    /\ names' = [op |-> "match", x |-> x, y |-> y,
                 normalizedExpected |-> NormalizedExpected(x \o <<".", "mp4">>),
                 normalizedFile |-> normalizeFilename(StripExtension(y \o <<".", "mp4">>)),
                 isMatch |-> FileMatches(y \o <<".", "mp4">>, x \o <<".", "mp4">>)]
    /\ UNCHANGED <<jobVars, flowVars>>

\* the names of at most MaxLen characters
NormalizeInputs == StringsOver(Chars, MaxLen)

MatchInputs == StringsOver(MatchChars, MaxLen)

\* one application in a behaviour
NextNormalize ==
    /\ names = <<>>
    /\ \E x \in NormalizeInputs : NormalizeInput(x)

SpecNormalize == InitNames /\ [][NextNormalize]_vars

NextMatch ==
    /\ names = <<>>
    /\ \E x \in MatchInputs, y \in MatchInputs : MatchInput(x, y)

SpecMatch == InitNames /\ [][NextMatch]_vars

\* ---- the workflow of one job (lines 437-1272, upload.js 64-115) ---------------------------
\* One run from the input file check to the answer of the caller; a step is
\* the code between two awaits.  stage names the stage that is executing
\* ("idle": the check has not been made); "Failed" is the throw that reaches
\* the catch block of line 1279.

\* program constants
checkInterval == 1000           \* line 148
timeout == 960000               \* line 149
targetDuration == 30            \* line 578
PIXELS_PER_SECOND == 30         \* line 692

\* the order of the stages in the text of runAutomationPipeline and uploadVideo
StageOrder ==
    <<"Upload", "WaitUploadTranscode", "PlaceOnTimeline", "RenameProject", "ZoomIn",
      "PositionOnTrack2", "PlayheadReset", "ZoomOut", "Trim", "Split",
      "SelectRightSegment", "DeleteRightSegment", "SelectRegion", "CutoutInvoked",
      "CutoutEnabled", "WaitCutoutComplete", "ExportInvoked", "DownloadInvoked",
      "ExportConfirmed", "WaitDownloadReady", "Done">>

StageIndex(s) == CHOOSE i \in DOMAIN StageOrder : StageOrder[i] = s

\* the statement after the end of stage s
StageAfterSwapped(s) ==
    IF s = "Split" THEN "DeleteRightSegment"
    ELSE IF s = "DeleteRightSegment" THEN "SelectRightSegment"
    ELSE IF s = "SelectRightSegment" THEN "SelectRegion"
    ELSE StageOrder[StageIndex(s) + 1]

StageAfter(s) == StageOrder[StageIndex(s) + 1]

\* the editor page has loaded (line 434); the input file exists or not
InitFlow ==
    /\ editors = [i \in 1..NumEditors |-> [url |-> EditorUrl(i), status |-> "available"]]
    /\ InitRest
    /\ NamesIdle
    /\ FlowAtRest
    /\ videoExists \in BOOLEAN

\* an error leaves the workflow: the locals of the stage are gone
Fail(e) ==
    /\ stage' = "Failed"
    /\ flowErr' = e
    /\ failedAt' = IF stage = "UploadCatch" THEN failedAt ELSE stage
    /\ elapsedTime' = 0
    /\ overlay' = Unseen
    /\ strategy' = 0
    /\ trim' = NoTrim
    /\ naming' = NoNaming
    /\ download' = NoDownload
    /\ UNCHANGED <<tried, located, missed>>

\* stage s ends normally and the next one starts; nothing else changes
Advance(s) ==
    /\ stage' = StageAfter(s)
    /\ UNCHANGED <<flowErr, failedAt, elapsedTime, overlay, strategy, tried, located, missed,
                   trim, naming, download>>

\* a stage whose errors propagate (no try/catch around it)
Fatal(s, e) ==
    /\ stage = s
    /\ \E ok \in BOOLEAN : IF ok THEN Advance(s) ELSE Fail(e)
    /\ UNCHANGED <<jobVars, names, cutout, videoExists, catalog, response>>

\* a stage inside try/catch whose catch only logs
Tolerant(s) ==
    /\ stage = s
    /\ Advance(s)
    /\ UNCHANGED <<jobVars, names, cutout, videoExists, catalog, response>>

\* what one poll can find in the media item container: no overlay element, or
\* one with the given rendered size
Overlays ==
    {[present |-> FALSE, width |-> 0, height |-> 0]} \cup
    {[present |-> TRUE, width |-> w, height |-> h] : w \in {0, 50}, h \in {0, 50}}

OverlayDoneZeroArea(o) == ~o.present \/ o.width * o.height = 0

\* lines 154 and 163: the poll resolves
OverlayDone(o) == ~o.present \/ (o.width = 0 /\ o.height = 0)

PollTimedOutNever(elapsed) == FALSE

\* line 170
PollTimedOut(elapsed) == elapsed >= timeout

\* an error inside uploadVideo reaches its catch block (line 254)
UploadThrow(e) ==
    /\ stage' = "UploadCatch"
    /\ flowErr' = e
    /\ failedAt' = stage
    /\ UNCHANGED <<strategy, tried, located, missed, trim, naming, download>>

InputMissingNever(exists) == FALSE

\* line 437: !fs.existsSync(videoPath)
InputMissing(exists) == ~exists

\* lines 437-440: the input file check; uploadVideo is called when it passes
InputCheck ==
    /\ stage = "idle"
    /\ IF InputMissing(videoExists)
       THEN Fail("VideoFileNotFound")
       ELSE /\ stage' = StageOrder[1]
            /\ UNCHANGED <<flowErr, failedAt, elapsedTime, overlay, strategy, tried,
                           located, missed, trim, naming, download>>
    /\ UNCHANGED <<jobVars, names, cutout, videoExists, catalog, response>>

\* lines 93-137: upload button, file chooser, accept, wait for the card label
UploadResolve ==
    /\ stage = "Upload"
    /\ \E ok \in BOOLEAN :
          IF ok THEN Advance("Upload")
          ELSE /\ UploadThrow("UploadFailed")
               /\ UNCHANGED <<elapsedTime, overlay>>
    /\ UNCHANGED <<jobVars, names, cutout, videoExists, catalog, response>>

\* lines 152-174: one tick of the interval inside the page
UploadPoll ==
    /\ stage = "WaitUploadTranscode"
    /\ \E o \in Overlays :
          /\ overlay' = o
          /\ IF OverlayDone(o)
             THEN /\ stage' = StageAfter("WaitUploadTranscode")
                  /\ elapsedTime' = 0
                  /\ UNCHANGED <<flowErr, failedAt, strategy, tried, located, missed, trim,
                                 naming, download>>
             ELSE /\ elapsedTime' = elapsedTime + checkInterval
                  /\ IF PollTimedOut(elapsedTime + checkInterval)
                     THEN UploadThrow("UploadTimeout")
                     ELSE UNCHANGED <<stage, flowErr, failedAt, strategy, tried, located, missed,
                                      trim, naming, download>>
    /\ UNCHANGED <<jobVars, names, cutout, videoExists, catalog, response>>

\* line 146: the evaluate call is rejected by the browser (page closed, crash)
UploadPollAbort ==
    /\ stage = "WaitUploadTranscode"
    /\ UploadThrow("UploadFailed")
    /\ UNCHANGED <<elapsedTime, overlay, jobVars, names, cutout, videoExists, catalog, response>>

\* lines 182-187: fresh handle to the media item, click
PlaceOnTimelineResolve ==
    /\ stage = "PlaceOnTimeline"
    /\ overlay' = Unseen
    /\ \E ok \in BOOLEAN :
          IF ok
          THEN /\ stage' = StageAfter("PlaceOnTimeline")
               /\ UNCHANGED <<flowErr, failedAt, strategy, tried, located, missed, trim, naming,
                              download>>
          ELSE UploadThrow("UploadFailed")
    /\ UNCHANGED <<elapsedTime, jobVars, names, cutout, videoExists, catalog, response>>

\* lines 254-260: screenshot, then the error is rethrown
UploadCatchResolve ==
    /\ stage = "UploadCatch"
    /\ \E shot \in BOOLEAN : Fail(IF shot THEN flowErr ELSE "ScreenshotFailed")
    /\ UNCHANGED <<jobVars, names, cutout, videoExists, catalog, response>>

\* lines 192-252 (rename), 443-527 (zoom in, canvas click), 559-571 (zoom out)
RenameProjectResolve == Tolerant("RenameProject")

ZoomInResolve == Tolerant("ZoomIn")

ZoomOutResolve == Tolerant("ZoomOut")

\* line 529: moveToTrack2
PositionOnTrack2Resolve == Fatal("PositionOnTrack2", "StageFailed")

\* lines 534-557
PlayheadResetResolve == Fatal("PlayheadReset", "StageFailed")

\* ---- trim (lines 577-709) -------------------------------------------------
\* canvasBox.x may be fractional: canvas origins are kept in half pixels (x2);
\* handle positions are whole pixels (Math.round and +1 steps, lines 658-676)
Canvases == {[x2 |-> x, width |-> 1200] : x \in {0, 1, 40}}

HandleXs == {100, 899, 900, 901, 920, 921}

\* the row of the scan (lines 665, 672) on which the handle is found
HandleYs == {100, 125}

\* Math.round of a number given in half units (halves round up)
Round2(h) == (h + 1) \div 2

\* lines 658-659
StartScanX(c) == Round2(c.x2 + 20)

EndScanX(c) == Round2(c.x2 + 2 * c.width - 20)

\* lines 664-685: the scan finds no col-resize cursor (-1) or the last x of
\* the handle area, inside the scanned range
ScanResults(c) == {-1} \cup {h \in HandleXs : StartScanX(c) <= h /\ h < EndScanX(c)}

\* twice targetWidthInPixels - currentImageWidthInPixels (lines 693-695)
WidthGap2(c, h) == 2 * (targetDuration * PIXELS_PER_SECOND) - (2 * h - c.x2)

DragDistanceFromOrigin(c, h) == Round2(2 * (targetDuration * PIXELS_PER_SECOND) - 2 * h)

\* line 695: dragDistance
DragDistance(c, h) == Round2(WidthGap2(c, h))

\* line 699: targetX
TargetX(h, d) == h + d

DragsNonNegative(d) == d >= 0

\* line 697
Drags(d) == d > 0

\* lines 581-685: the canvas box is read and the handle is scanned for
TrimScan ==
    /\ stage = "Trim"
    /\ ~trim.scanned
    /\ \E ok \in BOOLEAN :
          IF ok
          THEN /\ \E c \in Canvases : \E h \in ScanResults(c) : \E y \in HandleYs :
                     trim' = [NoTrim EXCEPT
                                 !.scanned = TRUE,
                                 !.canvasX2 = c.x2,
                                 !.canvasWidth = c.width,
                                 !.handleX = h,
                                 !.handleY = IF h = -1 THEN -1 ELSE y,
                                 !.dragDistance = IF h = -1 THEN 0 ELSE DragDistance(c, h)]
               /\ UNCHANGED <<stage, flowErr, failedAt, elapsedTime, overlay, strategy, tried,
                              located, missed, naming, download>>
          ELSE Fail("StageFailed")
    /\ UNCHANGED <<jobVars, names, cutout, videoExists, catalog, response>>

\* the first locator strategy of the next action is started
StartStrategies ==
    /\ strategy' = 1
    /\ tried' = <<>>
    /\ located' = <<>>

\* lines 687-709: no handle: log and screenshot; else the drag, if any
TrimDrag ==
    /\ stage = "Trim"
    /\ trim.scanned
    /\ IF trim.handleX = -1
       THEN \E shot \in BOOLEAN :
               IF shot
               THEN /\ stage' = StageAfter("Trim")
                    /\ missed' = missed \cup {"ResizeHandle"}
                    /\ StartStrategies
                    /\ UNCHANGED <<flowErr, failedAt, elapsedTime, overlay, trim, naming, download>>
               ELSE Fail("ScreenshotFailed")
       ELSE IF Drags(trim.dragDistance)
       THEN \E ok \in BOOLEAN :
               IF ok
               THEN /\ stage' = StageAfter("Trim")
                    /\ trim' = [trim EXCEPT
                                    !.drags = @ + 1,
                                    !.dragFrom = <<trim.handleX, trim.handleY>>,
                                    !.dragTo = <<TargetX(trim.handleX, trim.dragDistance),
                                                 trim.handleY>>]
                    /\ StartStrategies
                    /\ UNCHANGED <<flowErr, failedAt, elapsedTime, overlay, missed, naming,
                                   download>>
               ELSE Fail("StageFailed")
       ELSE /\ stage' = StageAfter("Trim")
            /\ StartStrategies
            /\ UNCHANGED <<flowErr, failedAt, elapsedTime, overlay, missed, trim, naming,
                           download>>
    /\ UNCHANGED <<jobVars, names, cutout, videoExists, catalog, response>>

\* ---- actions with an ordered list of locator strategies ------------------
\* lines 718-725
splitButtonSelectors ==
    <<"#timeline-part-view ... .timeline-tools-left > button:nth-child(1)",
      ".timeline-tools-left > button:first-child",
      ".timeline-tools-left button[title*=Split]",
      ".timeline-tools-left button[aria-label*=Split]",
      "button[data-testid=split-button]",
      ".timeline-tools button:first-child">>

\* lines 771-778
deleteButtonSelectors ==
    <<"#timeline-part-view ... .timeline-tools-left > button:nth-child(2)",
      ".timeline-tools-left > button:nth-child(2)",
      ".timeline-tools-left button[title*=Delete]",
      ".timeline-tools-left button[aria-label*=Delete]",
      "button[data-testid=delete-button]",
      ".timeline-tools button:nth-child(2)">>

\* lines 873-883
cutoutCardSelectors ==
    <<"#cutout-card", "[data-testid=cutout-card]", ".cutout-card", "div[id*=cutout]",
      "button[aria-label*=remove]", "button[aria-label*=background]",
      "div[role=button][aria-label*=cutout]", ".remove-background-option",
      "[data-id=cutout-card]">>

\* the selectors in list order, then the fallback (keyboard shortcut, text scan)
Strategies(a) ==
    CASE a = "Split" -> splitButtonSelectors \o <<"keyboard KeyS">>
      [] a = "Delete" -> deleteButtonSelectors \o <<"keyboard Delete">>
      [] a = "CutoutCard" -> cutoutCardSelectors \o <<"text scan">>

\* the action located in stage s
ListAction(s) ==
    CASE s = "Split" -> "Split"
      [] s = "DeleteRightSegment" -> "Delete"
      [] s = "CutoutInvoked" -> "CutoutCard"

NextStrategyTwo(i) == i + 2

\* the for loops of lines 728, 781, 886, followed by the fallback
NextStrategy(i) == i + 1

ThrowsWhenExhaustedDeleteOnly(a) == a = "Delete"

\* lines 754-756 and 807-809 throw; lines 950-953 log and continue
ThrowsWhenExhausted(a) == a \in {"Split", "Delete"}

NotLocatedError(a) == IF a = "Split" THEN "SplitNotLocated" ELSE "DeleteNotLocated"

\* one strategy of the list is attempted (waitForSelector and click, or the
\* fallback) and settles
AttemptStrategy(s) ==
    /\ stage = s
    /\ strategy \in DOMAIN Strategies(ListAction(s))
    /\ tried' = Append(tried, strategy)
    /\ LET a == ListAction(s)
       IN  \E ok \in BOOLEAN, shot \in BOOLEAN :
              IF ok
              THEN /\ shot
                   /\ located' = [action |-> a, strategy |-> strategy]
                   /\ strategy' = 0
                   /\ stage' = StageAfter(s)
                   /\ UNCHANGED <<flowErr, failedAt, missed>>
              ELSE IF NextStrategy(strategy) \in DOMAIN Strategies(a)
              THEN /\ shot
                   /\ strategy' = NextStrategy(strategy)
                   /\ UNCHANGED <<stage, flowErr, failedAt, located, missed>>
              ELSE /\ missed' = missed \cup {a}
                   /\ strategy' = 0
                   /\ UNCHANGED located
                   /\ IF ThrowsWhenExhausted(a)
                      THEN /\ shot
                           /\ stage' = "Failed"
                           /\ flowErr' = NotLocatedError(a)
                           /\ failedAt' = stage
                      ELSE IF shot
                      THEN /\ stage' = StageAfter(s)
                           /\ UNCHANGED <<flowErr, failedAt>>
                      ELSE /\ stage' = "Failed"
                           /\ flowErr' = "ScreenshotFailed"
                           /\ failedAt' = stage
    /\ trim' = IF stage' \in {"Split", "SelectRightSegment", "DeleteRightSegment"}
               THEN trim ELSE NoTrim
    /\ UNCHANGED <<elapsedTime, overlay, naming, download, jobVars, names, cutout, videoExists, catalog, response>>

\* the fixed inset of line 760
rightInset == 100

\* line 760: rightClickX, in half pixels
RightClickX2(x2, width) == x2 + 2 * width - 2 * rightInset

\* lines 759-763: click on the right segment; the Delete strategies start
SelectRightSegmentResolve ==
    /\ stage = "SelectRightSegment"
    /\ \E ok \in BOOLEAN :
          IF ok
          THEN /\ stage' = StageAfter("SelectRightSegment")
               /\ trim' = [trim EXCEPT
                               !.rightClickX2 = RightClickX2(trim.canvasX2, trim.canvasWidth)]
               /\ StartStrategies
               /\ UNCHANGED <<flowErr, failedAt, elapsedTime, overlay, missed, naming,
                              download>>
          ELSE Fail("StageFailed")
    /\ UNCHANGED <<jobVars, names, cutout, videoExists, catalog, response>>

\* lines 811-861: zoom in twice (errors logged), click on the video
SelectRegionResolve == Fatal("SelectRegion", "StageFailed")

\* lines 864-867: the cutout button is clicked; the card strategies start
CutoutButtonClick ==
    /\ stage = "CutoutInvoked"
    /\ strategy = 0
    /\ \E ok \in BOOLEAN :
          IF ok
          THEN /\ StartStrategies
               /\ UNCHANGED <<stage, flowErr, failedAt, elapsedTime, overlay, missed, trim,
                              naming, download>>
          ELSE Fail("StageFailed")
    /\ UNCHANGED <<jobVars, names, cutout, videoExists, catalog, response>>

\* lines 956-1017: the switch is searched for in the page and clicked; when
\* the search returns null: screenshot, then throw
CutoutEnabledResolve ==
    /\ stage = "CutoutEnabled"
    /\ \E found \in BOOLEAN, ok \in BOOLEAN :
          IF found /\ ok
          THEN /\ stage' = StageAfter("CutoutEnabled")
               /\ tried' = <<>>
               /\ located' = <<>>
               /\ UNCHANGED <<flowErr, failedAt, elapsedTime, overlay, strategy, missed, trim,
                              naming, download>>
          ELSE IF found
          THEN Fail("StageFailed")
          ELSE /\ missed' = missed \cup {"CutoutSwitch"}
               /\ stage' = "Failed"
               /\ flowErr' = IF ok THEN "SwitchNotLocated" ELSE "ScreenshotFailed"
               /\ failedAt' = stage
               /\ UNCHANGED <<elapsedTime, overlay, strategy, tried, located, trim,
                              naming, download>>
    /\ UNCHANGED <<jobVars, names, cutout, videoExists, catalog, response>>

\* ---- the wait for the background removal (lines 1019-1034) ----------------
cutoutTimeout == 7 * 60 * 1000      \* line 1027, timeout
cutoutPolling == 5000               \* line 1027, polling

\* what one evaluation of the predicate finds: a switch with
\* aria-checked="true" or none (line 1022), and whether that switch carries the
\* loading class or icon (line 1025)
Switches == {sw \in [checked : BOOLEAN, loading : BOOLEAN] : sw.loading => sw.checked}

CutoutCompleteChecked(sw) == sw.checked

\* lines 1022-1026: the value the predicate returns
CutoutComplete(sw) == sw.checked /\ ~sw.loading

\* the timer of waitForFunction has fired
CutoutTimedOut(elapsed) == elapsed >= cutoutTimeout

\* lines 1021-1034: one evaluation of the predicate by waitForFunction; when it
\* returns true the wait resolves and, 7 s later, the export starts; otherwise
\* the next evaluation is cutoutPolling later, unless the timeout fires first
WaitCutoutCompletePoll ==
    /\ stage = "WaitCutoutComplete"
    /\ \E sw \in Switches :
          IF CutoutComplete(sw)
          THEN /\ cutout' = [elapsed |-> 0, switch |-> sw]
               /\ Advance("WaitCutoutComplete")
          ELSE IF CutoutTimedOut(cutout.elapsed + cutoutPolling)
          THEN /\ cutout' = NoCutout
               /\ Fail("CutoutTimeout")
          ELSE /\ cutout' = [elapsed |-> cutout.elapsed + cutoutPolling, switch |-> sw]
               /\ UNCHANGED <<stage, flowErr, failedAt, elapsedTime, overlay, strategy,
                              tried, located, missed, trim, naming, download>>
    /\ UNCHANGED <<jobVars, names, videoExists, catalog, response>>

\* line 1021: waitForFunction is rejected by the browser (page closed, crash)
WaitCutoutCompleteAbort ==
    /\ stage = "WaitCutoutComplete"
    /\ cutout' = NoCutout
    /\ Fail("StageFailed")
    /\ UNCHANGED <<jobVars, names, videoExists, catalog, response>>

\* ---- export and download (lines 1036-1257) -------------------------------
exportTimeout == 10 * 60 * 1000             \* line 1074
downloadWaitTimeout == 15 * 60 * 1000       \* lines 1121, 1196

\* titleValue.trim() of the export dialog's name input; <<>>: no input, an
\* empty value, or an error while reading it (lines 1048-1059)
DialogTitles == {<<>>, <<"A", " ", "a">>}

\* the a[download] element: its download attribute, the last segment of its
\* href and its text, each trimmed; <<>>: null or empty
Links ==
    [download : {<<>>, <<"a", "1", ".", "mp4">>},
     hrefLast : {<<>>, <<"1", "a">>, <<"1", "a", ".", "mp4">>},
     text     : {<<>>, <<"a", "-", "a">>, <<"a", "-", "a", ".", "mp4">>}]

\* name.includes('.')
HasDot(name) == \E i \in DOMAIN name : name[i] = "."

\* lines 1084-1102: the name read from the link, <<>> for null
LinkFileName(link) ==
    IF link.download # <<>> THEN link.download
    ELSE IF link.hrefLast # <<>> /\ HasDot(link.hrefLast) THEN link.hrefLast
    ELSE IF link.text # <<>> /\ HasDot(link.text) THEN link.text
    ELSE <<>>

ResolveFileNameDialogFirst(link, videoFileName) ==
    IF videoFileName # <<>> THEN videoFileName ELSE LinkFileName(link)

\* lines 1084-1108: fileName, <<>> when no method yields one
ResolveFileName(link, videoFileName) ==
    IF LinkFileName(link) # <<>> THEN LinkFileName(link) ELSE videoFileName

\* lines 1039-1059: the Export button is clicked, the dialog's name is read
ExportInvokedResolve ==
    /\ stage = "ExportInvoked"
    /\ \E ok \in BOOLEAN :
          IF ok
          THEN /\ stage' = StageAfter("ExportInvoked")
               /\ \E titleValue \in DialogTitles :
                     naming' = [naming EXCEPT !.videoFileName =
                                   IF titleValue # <<>> THEN titleValue \o <<".", "mp4">>
                                   ELSE <<>>]
               /\ UNCHANGED <<flowErr, failedAt, elapsedTime, overlay, strategy, tried, located,
                              missed, trim, download>>
          ELSE Fail("StageFailed")
    /\ UNCHANGED <<jobVars, names, cutout, videoExists, catalog, response>>

\* lines 1061-1064
DownloadInvokedResolve == Fatal("DownloadInvoked", "StageFailed")

\* lines 1066-1076: the confirmation is clicked; the wait for the link starts
ExportConfirmedResolve ==
    /\ stage = "ExportConfirmed"
    /\ \E ok \in BOOLEAN :
          IF ok
          THEN /\ stage' = StageAfter("ExportConfirmed")
               /\ download' = [NoDownload EXCEPT !.phase = "link"]
               /\ UNCHANGED <<flowErr, failedAt, elapsedTime, overlay, strategy, tried, located,
                              missed, trim, naming>>
          ELSE Fail("StageFailed")
    /\ UNCHANGED <<jobVars, names, cutout, videoExists, catalog, response>>

\* the download directory: names and sizes a readdirSync / statSync can return
DirNames == {<<"A", "1", ".", "mp4">>, <<"1", "a", ".", "mp4">>, <<"a", "1", ".", "txt">>,
             <<"a", "1", "!", "1", ".", "mp4">>}

Sizes == {500, 2000, 3000}

DirEntries == [name : DirNames, size : Sizes]

\* line 1137: a new file is taken when it has some size and a video extension
IsCandidate(e) == e.size > 1000 /\ EndsWithVideoExt(e.name)

\* a listing, in readdirSync order: no file, one file, or two growing videos
Listings ==
    {<<>>} \cup {<<e>> : e \in DirEntries} \cup
    {p \in DirEntries \X DirEntries :
        /\ p[1].name # p[2].name
        /\ \A i \in 1..2 : IsCandidate(p[i])}

\* the name under which the browser saves the file of this job (download
\* behaviour 'allow' with downloadPath DOWNLOADS_DIR, lines 424-428); the
\* browser can write it at any time after the confirmation click
OutputName == <<"A", "1", ".", "mp4">>

\* line 1115: what readdirSync returns for filesBefore: the files of earlier
\* jobs and, when the browser has written it already, the file of this job
Baselines(written) ==
    {earlier \cup (IF written THEN {OutputName} ELSE {}) :
        earlier \in {{}} \cup {{n} : n \in DirNames \ {OutputName}}}

\* downloadLink and videoFileName are not read again once fileName is set
ForgetLink(n) == [n EXCEPT !.link = <<>>, !.videoFileName = <<>>]

FinishUnseen(by, file, sizeFrom, samePoll) ==
    /\ stage' = "Done"
    /\ download' = NoDownload
    /\ naming' = ForgetLink(naming)
    /\ UNCHANGED <<flowErr, failedAt, elapsedTime, overlay, strategy, tried, located, missed,
                   trim>>

\* lines 1153-1156 and 1239-1240, then 1247 and 1254: the file is reported,
\* downloadReady is set and the workflow is over: line 1272 is reached.
\* file is the file reported; sizeFrom and samePoll say which file the size it
\* was compared with had been read from, and whether in the same poll
Finish(by, file, sizeFrom, samePoll) ==
    /\ stage' = "Done"
    /\ download' = [NoDownload EXCEPT !.ready = TRUE, !.by = by, !.file = file,
                                      !.sizeFrom = sizeFrom, !.samePoll = samePoll]
    /\ naming' = ForgetLink(naming)
    /\ UNCHANGED <<flowErr, failedAt, elapsedTime, overlay, strategy, tried, located, missed,
                   trim>>

\* lines 1078-1118 and 1250-1257: one turn of the loop that waits for the link
LinkPoll ==
    /\ stage = "WaitDownloadReady"
    /\ download.phase = "link"
    /\ IF download.exportElapsed >= exportTimeout
       THEN Fail("NoDownloadLink")
       ELSE \E ok \in BOOLEAN :
               IF ~ok THEN Fail("StageFailed")
               ELSE \/ /\ \E w \in BOOLEAN :
                             download' = [download EXCEPT !.exportElapsed = @ + 15000,
                                                          !.written = @ \/ w]
                       /\ UNCHANGED <<stage, flowErr, failedAt, elapsedTime, overlay, strategy,
                                      tried, located, missed, trim, naming>>
                    \/ \E link \in Links :
                          LET fileName == ResolveFileName(link, naming.videoFileName)
                          IN  /\ naming' = [naming EXCEPT !.link = link,
                                                          !.fileName = fileName]
                              /\ IF fileName = <<>>
                                 THEN \E before \in Baselines(download.written) :
                                         download' = [NoDownload EXCEPT
                                                         !.phase = "diff",
                                                         !.filesBefore = before,
                                                         !.written = download.written]
                                 ELSE download' = [NoDownload EXCEPT !.phase = "match"]
                              /\ UNCHANGED <<stage, flowErr, failedAt, elapsedTime, overlay,
                                             strategy, tried, located, missed, trim>>
    /\ UNCHANGED <<jobVars, names, cutout, videoExists, catalog, response>>

\* lines 1130-1137: the first entry of the listing, in order, that is not in
\* filesBefore and is a candidate; <<>> when there is none
RECURSIVE FirstNewFile(_, _)
FirstNewFile(files, filesBefore) ==
    IF files = <<>> THEN <<>>
    ELSE IF Head(files).name \notin filesBefore /\ IsCandidate(Head(files))
    THEN Head(files).name
    ELSE FirstNewFile(Tail(files), filesBefore)

\* lines 1127-1170: one turn of the loop that watches for a new file
DiffPoll ==
    /\ stage = "WaitDownloadReady"
    /\ download.phase = "diff"
    /\ IF download.waitElapsed >= downloadWaitTimeout
       THEN Fail("NoNewFile")
       ELSE \E files \in Listings :
               /\ IF FirstNewFile(files, download.filesBefore) # <<>>
                  THEN download' = [NoDownload EXCEPT
                                       !.phase = "stable",
                                       !.file = FirstNewFile(files, download.filesBefore),
                                       !.waitElapsed = download.waitElapsed]
                  ELSE download' = [download EXCEPT !.waitElapsed = @ + 5000]
               /\ naming' = ForgetLink(naming)
               /\ UNCHANGED <<stage, flowErr, failedAt, elapsedTime, overlay, strategy, tried,
                              located, missed, trim>>
    /\ UNCHANGED <<jobVars, names, cutout, videoExists, catalog, response>>

\* lines 1142-1156: one turn of the loop that waits for three equal sizes in a
\* row; statSync throws when the file is gone.  The loop reads no clock:
\* waitElapsed goes on as the time since downloadWaitStart (line 1122), counted
\* in turns of 2000 ms up to downloadWaitTimeout
StablePoll ==
    /\ stage = "WaitDownloadReady"
    /\ download.phase = "stable"
    /\ \/ Fail("StageFailed")
       \/ \E size \in Sizes \cup {0} :
             LET count == IF size = download.lastSize /\ size > 0
                          THEN download.stableCount + 1 ELSE 0
             IN  IF count < 3
                 THEN /\ download' = [download EXCEPT
                                          !.lastSize = size,
                                          !.stableCount = count,
                                          !.waitElapsed =
                                              IF @ + 2000 < downloadWaitTimeout
                                              THEN @ + 2000 ELSE downloadWaitTimeout]
                      /\ naming' = ForgetLink(naming)
                      /\ UNCHANGED <<stage, flowErr, failedAt, elapsedTime, overlay, strategy,
                                     tried, located, missed, trim>>
                 ELSE Finish("diff", download.file, download.file, FALSE)
    /\ UNCHANGED <<jobVars, names, cutout, videoExists, catalog, response>>

\* lines 1205-1230: the listing is walked in order with one lastSize for all
\* files; the walk stops at the first matching file whose size equals lastSize
\* (matching: the names of the directory that the matcher accepts for fileName).
\* last is [size: lastSize, from: the file that size was read from, samePoll:
\* it was read during this walk]; from and samePoll are not program state
RECURSIVE ScanFiles(_, _, _)
ScanFiles(files, matching, last) ==
    IF files = <<>> THEN [matchedFile |-> <<>>, last |-> last]
    ELSE LET f == Head(files)
         IN  IF f.name \in matching /\ f.size > 1000
             THEN IF f.size = last.size /\ last.size > 0
                  THEN [matchedFile |-> f.name, last |-> last]
                  ELSE ScanFiles(Tail(files), matching,
                                 [size |-> f.size, from |-> f.name, samePoll |-> TRUE])
             ELSE ScanFiles(Tail(files), matching, last)

\* the values fileName can take (lines 1053 and 1084-1108)
FileNames ==
    {ResolveFileName(l, v) : l \in Links,
                             v \in {IF t = <<>> THEN <<>> ELSE t \o <<".", "mp4">> :
                                       t \in DialogTitles}} \ {<<>>}

\* lines 1206-1214 for every fileName and every name a listing can hold
MatchingNames == [fileName \in FileNames |-> {n \in DirNames : FileMatches(n, fileName)}]

\* lines 1200-1245: one turn of the loop that waits for the named file
MatchPoll ==
    /\ stage = "WaitDownloadReady"
    /\ download.phase = "match"
    /\ IF download.waitElapsed >= downloadWaitTimeout
       THEN Fail("DownloadTimeout")
       ELSE LET matching == MatchingNames[naming.fileName]
            IN  \E files \in Listings :
                   LET scan == ScanFiles(files, matching,
                                         [size |-> download.lastSize,
                                          from |-> download.sizeFrom,
                                          samePoll |-> FALSE])
                   IN  IF scan.matchedFile # <<>>
                       THEN Finish("match", scan.matchedFile, scan.last.from,
                                   scan.last.samePoll)
                       ELSE /\ download' = [download EXCEPT !.lastSize = scan.last.size,
                                                            !.sizeFrom = scan.last.from,
                                                            !.waitElapsed = @ + 2000]
                            /\ naming' = ForgetLink(naming)
                            /\ UNCHANGED <<stage, flowErr, failedAt, elapsedTime, overlay,
                                           strategy, tried, located, missed, trim>>
    /\ UNCHANGED <<jobVars, names, cutout, videoExists, catalog, response>>

\* ---- the caller of the pipeline (upload.js lines 81-115) ------------------
\* the status the caller passes to updateVideoStatus after a run (<<>>: no call)
\* upload.js lines 85-93 (success) and 100-115 (failure)
StatusCalls(returned) == IF returned THEN <<"rmbg">> ELSE <<>>

\* lines 1272-1277 and upload.js lines 83-99: the pipeline returns, the caller
\* records the status and answers
PipelineReturns ==
    /\ stage = "Done"
    /\ response = 0
    /\ catalog' = catalog \o StatusCalls(TRUE)
    /\ response' = HttpStatus("done")
    /\ UNCHANGED <<jobVars, names, stage, flowErr, failedAt, elapsedTime, overlay,
                   strategy, tried, located, missed, trim, naming, download, cutout,
                   videoExists>>

\* lines 1279-1313 and upload.js lines 100-115: the pipeline throws, the caller
\* answers with the error
PipelineThrows ==
    /\ stage = "Failed"
    /\ response = 0
    /\ catalog' = catalog \o StatusCalls(FALSE)
    /\ response' = HttpStatus("failed")
    /\ UNCHANGED <<jobVars, names, stage, flowErr, failedAt, elapsedTime, overlay,
                   strategy, tried, located, missed, trim, naming, download, cutout,
                   videoExists>>

NextFlow ==
    \/ InputCheck
    \/ UploadResolve
    \/ UploadPoll
    \/ UploadPollAbort
    \/ PlaceOnTimelineResolve
    \/ UploadCatchResolve
    \/ RenameProjectResolve
    \/ ZoomInResolve
    \/ PositionOnTrack2Resolve
    \/ PlayheadResetResolve
    \/ ZoomOutResolve
    \/ TrimScan
    \/ TrimDrag
    \/ AttemptStrategy("Split")
    \/ SelectRightSegmentResolve
    \/ AttemptStrategy("DeleteRightSegment")
    \/ SelectRegionResolve
    \/ CutoutButtonClick
    \/ AttemptStrategy("CutoutInvoked")
    \/ CutoutEnabledResolve
    \/ WaitCutoutCompletePoll
    \/ WaitCutoutCompleteAbort
    \/ ExportInvokedResolve
    \/ DownloadInvokedResolve
    \/ ExportConfirmedResolve
    \/ LinkPoll
    \/ DiffPoll
    \/ StablePoll
    \/ MatchPoll
    \/ PipelineReturns
    \/ PipelineThrows

SpecFlow == InitFlow /\ [][NextFlow]_vars

\* every awaited timer and browser call settles: the run is always resumed
FairSpecFlow == SpecFlow /\ WF_vars(NextFlow)

\* ---- properties ---------------------------------------------------------
Ended == {"done", "failed"}

\* the job has leased an editor and is between acquire and the end of the workflow
Holding(j) == pc[j] \in {"probe", "launch", "newPage", "goto", "workflow"}

IndexOf(url) == FirstIndex(MatchingIndexes(editors, url))

NumAvailable(eds) == Cardinality({i \in DOMAIN eds : eds[i].status = "available"})

\* the step is the admission of job j
Admission(j) == pc[j] = "idle" /\ pc'[j] # "idle"

\* C1: leak-freedom. When a run that leased an editor ends (returns or throws),
\* that editor's status is available (or another job has leased it since it
\* was released).
LeakFreedom ==
    [][\A j \in Jobs :
          (pc[j] \notin Ended /\ pc'[j] \in Ended /\ editorUrl[j] # NoUrl)
          => \/ StatusOf(editors', editorUrl[j]) = "available"
             \/ leases'[IndexOf(editorUrl[j])] \ {j} # {}]_vars

\* C2: mutual exclusion. No two running jobs hold the same editor.
MutualExclusion ==
    \A j, k \in Jobs :
        (j # k /\ Holding(j) /\ Holding(k)) => editorUrl[j] # editorUrl[k]

\* C3: an admission made with exactly one available editor leases it alone and
\* leaves none available, so that a second admission fails with 'No editors
\* available'; no editor is leased by two admissions without a release between.
AdmissionExclusive ==
    /\ [](\A i \in 1..NumEditors : Cardinality(leases[i]) <= 1)
    /\ [][\A j \in Jobs :
             Admission(j) =>
                /\ NumAvailable(editors) = 1 =>
                      /\ NumAvailable(editors') = 0
                      /\ editorUrl'[j] # NoUrl
                      /\ StatusOf(editors, editorUrl'[j]) = "available"
                      /\ leases'[IndexOf(editorUrl'[j])] = {j}
                /\ NumAvailable(editors) = 0 =>
                      /\ raised'[j] = "NoEditors"
                      /\ editorUrl'[j] = NoUrl]_vars

AdmissionExclusiveWitness ==
    \E j, k \in Jobs :
        /\ Holding(j) /\ leases[IndexOf(editorUrl[j])] = {j}
        /\ NumAvailable(editors) = 0
        /\ raised[k] = "NoEditors"

\* C4: with no available editor the admission fails at once with 'No editors
\* available' and touches no browser: nothing is probed, launched or opened.
NoEditorsFailsFast ==
    [][\A j \in Jobs :
          (Admission(j) /\ \A i \in DOMAIN editors : editors[i].status # "available")
          => /\ pc'[j] = "failed"
             /\ raised'[j] = "NoEditors"
             /\ browser'[j] = NoBrowser /\ probed'[j] = NoBrowser /\ launched'[j] = NoBrowser
             /\ UNCHANGED <<automationBrowser, nBrowsers, connected, pages, editors>>]_vars

NoEditorsFailsFastWitness ==
    \E j \in Jobs :
        /\ pc[j] = "failed" /\ raised[j] = "NoEditors"
        /\ automationBrowser # NoBrowser /\ connected[automationBrowser]

\* C5: an admission leases the first editor, in list order, whose status is
\* available, and changes no other record.
FirstAvailableLeased ==
    [][\A j \in Jobs :
          (Admission(j) /\ pc'[j] # "failed")
          => \E i \in DOMAIN editors :
                /\ editors[i].status = "available"
                /\ \A k \in DOMAIN editors : k < i => editors[k].status # "available"
                /\ editorUrl'[j] = editors[i].url
                /\ editors' = [editors EXCEPT ![i].status = "in-use"]]_vars

FirstAvailableLeasedWitness ==
    \E j \in Jobs :
        /\ Holding(j) /\ IndexOf(editorUrl[j]) > 1
        /\ leases[IndexOf(editorUrl[j])] = {j}
        /\ \E k \in Jobs : k > j /\ Holding(k) /\ IndexOf(editorUrl[k]) = 1

\* C6: a lease of an editor that is already in-use fails and leaves the
\* registry unchanged.
LeaseChecksStatus ==
    \A n \in DOMAIN regLog :
        (/\ regLog[n].status = "in-use"
         /\ MatchingIndexes(regLog[n].before, regLog[n].url) # {}
         /\ StatusOf(regLog[n].before, regLog[n].url) = "in-use")
        => regLog[n].threw /\ regLog[n].after = regLog[n].before

\* C7: release is idempotent. A release raises no error; a release of an
\* editor that is already available leaves the registry as it was; a second
\* release of the same url leaves the registry as the first one left it.
ReleaseIdempotent ==
    \A n \in DOMAIN regLog :
        regLog[n].status = "available" =>
            /\ ~regLog[n].threw
            /\ (/\ MatchingIndexes(regLog[n].before, regLog[n].url) # {}
                /\ StatusOf(regLog[n].before, regLog[n].url) = "available")
               => regLog[n].after = regLog[n].before
            /\ (/\ n > 1
                /\ regLog[n - 1].status = "available"
                /\ regLog[n - 1].url = regLog[n].url)
               => regLog[n].after = regLog[n - 1].after

ReleaseIdempotentWitness ==
    \E n \in DOMAIN regLog :
        /\ n > 1
        /\ regLog[n].status = "available" /\ regLog[n - 1].status = "available"
        /\ regLog[n].url = regLog[n - 1].url
        /\ regLog[n - 1].after # regLog[n - 1].before
        /\ regLog[n].url # regLog[n].before[Len(regLog[n].before)].url

\* C8: session health. The browser a job drives passed that job's probe or
\* was launched by that job.
SessionHealth ==
    \A j \in Jobs :
        pc[j] \in {"newPage", "goto", "workflow"}
        => browser[j] # NoBrowser /\ browser[j] \in {probed[j], launched[j]}

\* C9: when a job closes its page, the editor the job leased becomes available,
\* whatever address the page shows.
ClosePageReleasesLeased ==
    [][\A j \in Jobs :
          (closeTarget[j] # j /\ closeTarget'[j] = j)
          => StatusOf(editors', editorUrl[j]) = "available"]_vars

\* C10: while a job runs, the editor it leased stays in-use.
OccupiedForLifetime ==
    \A j \in Jobs : Holding(j) => StatusOf(editors, editorUrl[j]) = "in-use"

\* ---- properties of the workflow --------------------------------------------
\* <<1, 2, ..., n>>
UpTo(n) == [i \in 1..n |-> i]

\* C11: the locator strategies of Split, Delete and the remove-background card
\* are attempted in list order; none is attempted after one has succeeded; the
\* action fails as not locatable only after all of them have failed; when the
\* six Split selectors fail and the keyboard shortcut succeeds, Split has
\* succeeded by strategy 7.
StrategiesInOrder ==
    /\ tried = UpTo(Len(tried))
    /\ located # <<>> =>
          /\ tried # <<>>
          /\ located.strategy = tried[Len(tried)]
          /\ located.action \notin missed
    /\ flowErr \in {"SplitNotLocated", "DeleteNotLocated"} =>
          /\ tried = UpTo(7)
          /\ located = <<>>
    /\ (located # <<>> /\ located.action = "Split") =>
          /\ stage \in {"SelectRightSegment", "Failed"}
          /\ flowErr \in {"none", "StageFailed"}

StrategiesInOrderWitness ==
    /\ stage = "SelectRightSegment"
    /\ located = [action |-> "Split", strategy |-> 7]
    /\ tried = UpTo(7)

\* C12: when no locator strategy finds a required element (resize handle,
\* remove-background card, cutout switch) the job fails and never reaches Done.
NotLocatedNeverDone == missed # {} => stage # "Done"

\* C13: in the trim stage, when the clip is already at least 30 s x 30 px/s
\* wide (target width - current width <= 0), no pointer drag is performed and
\* the workflow goes on to Split.
NoDragWhenLongEnough ==
    [][(/\ stage = "Trim"
        /\ trim.scanned
        /\ trim.handleX # -1
        /\ 2 * 900 - (2 * trim.handleX - trim.canvasX2) <= 0)
       => (stage' = "Split" /\ trim'.drags = 0)]_vars

NoDragWhenLongEnoughWitness ==
    /\ stage = "Split"
    /\ trim.scanned
    /\ trim.canvasX2 = 1
    /\ trim.handleX = 901
    /\ trim.drags = 0

\* the step is one poll of the overlay (not a rejection by the browser)
PollStep ==
    /\ stage = "WaitUploadTranscode"
    /\ ~(stage' = "UploadCatch" /\ flowErr' = "UploadFailed")

\* C14: the wait for the upload overlay is bounded: it never lasts more than
\* 960 polls of 1 s; when the overlay is still there with a size at the 960th
\* poll the wait ends with the time-out error, and the job fails.
UploadWaitBounded ==
    /\ [](elapsedTime <= 960 * 1000)
    /\ [](stage = "WaitUploadTranscode" => elapsedTime < 960 * 1000)
    /\ [][(/\ PollStep
           /\ elapsedTime = 959 * 1000
           /\ overlay'.present /\ overlay'.width > 0 /\ overlay'.height > 0)
          => (stage' = "UploadCatch" /\ flowErr' = "UploadTimeout")]_vars
    /\ [][stage = "UploadCatch" => stage' = "Failed"]_vars

UploadWaitBoundedWitness ==
    /\ stage = "UploadCatch"
    /\ flowErr = "UploadTimeout"
    /\ elapsedTime = 960 * 1000

\* C15: a poll completes the wait exactly when the overlay is absent or its
\* bounding box has zero area (width x height = 0).
UploadCompletesOnZeroArea ==
    [][PollStep =>
          (stage' = "PlaceOnTimeline"
           <=> (~overlay'.present \/ overlay'.width * overlay'.height = 0))]_vars

\* C15 as amended: a poll completes the wait exactly when the overlay is
\* absent or both its width and its height are zero.
UploadCompletesOnNoSize ==
    [][PollStep =>
          (stage' = "PlaceOnTimeline"
           <=> (~overlay'.present \/ (overlay'.width = 0 /\ overlay'.height = 0)))]_vars

UploadCompletesOnNoSizeWitness ==
    /\ stage = "PlaceOnTimeline"
    /\ overlay.present /\ overlay.width = 0 /\ overlay.height = 0

\* ---- properties of the filename functions ------------------------------------
\* C16: normalizeFilename is idempotent: applied to its own result it returns
\* that result.
NormalizeIdempotent ==
    (names # <<>> /\ names.op = "normalize") => names.twice = names.once

NormalizeIdempotentWitness ==
    /\ names # <<>>
    /\ names.op = "normalize"
    /\ names.x = <<"X", "A", "!">>
    /\ names.once = <<"a">>

\* s without its emoji, symbol and punctuation characters, in lower case
Bare(s) ==
    LET F[i \in 0..Len(s)] ==
            IF i = 0 THEN <<>>
            ELSE IF s[i] \in {"!", "E", "X"} THEN F[i - 1]
            ELSE Append(F[i - 1], IF s[i] = "A" THEN "a" ELSE s[i])
    IN  F[Len(s)]

IsSymbol(c) == c \in {"_", "!", "E", "X"}

\* s in lower case, each run of emoji, symbol, punctuation and underscore
\* characters written as one underscore, without such a run at either end
Skeleton(s) ==
    LET kept(i) == \/ ~IsSymbol(s[i])
                   \/ /\ i > 1 /\ ~IsSymbol(s[i - 1])
                      /\ \E k \in DOMAIN s : k > i /\ ~IsSymbol(s[k])
        F[i \in 0..Len(s)] ==
            IF i = 0 THEN <<>>
            ELSE IF ~kept(i) THEN F[i - 1]
            ELSE Append(F[i - 1], IF IsSymbol(s[i]) THEN "_"
                                   ELSE IF s[i] = "A" THEN "a" ELSE s[i])
    IN  F[Len(s)]

LinkRead == stage = "WaitDownloadReady" /\ naming.link # <<>>

\* the name the link offers: download attribute, then href, then text
LinkOffer ==
    IF naming.link.download # <<>> THEN naming.link.download
    ELSE IF HasDot(naming.link.hrefLast) THEN naming.link.hrefLast
    ELSE IF HasDot(naming.link.text) THEN naming.link.text
    ELSE <<>>

\* C18: the expected filename is the export dialog's name when it is not
\* empty, otherwise the link's download attribute, href or text, and the
\* directory is watched for a new file only when there is neither.
FileNameDialogFirst ==
    LinkRead =>
        /\ naming.fileName = (IF naming.videoFileName # <<>> THEN naming.videoFileName
                              ELSE LinkOffer)
        /\ download.phase = "diff" <=> (naming.videoFileName = <<>> /\ LinkOffer = <<>>)

\* C18 as amended: the expected filename is the link's download attribute,
\* else the last segment of its href when it holds a dot, else its text when
\* it holds a dot, else the export dialog's name; the directory is watched for
\* a new file only when there is none of them.
FileNameLinkFirst ==
    LinkRead =>
        /\ naming.fileName = (IF LinkOffer # <<>> THEN LinkOffer
                              ELSE naming.videoFileName)
        /\ download.phase = "diff" <=> (naming.videoFileName = <<>> /\ LinkOffer = <<>>)

FileNameLinkFirstWitness ==
    /\ LinkRead
    /\ naming.videoFileName # <<>>
    /\ naming.link.download # <<>>
    /\ naming.fileName = naming.link.download
    /\ download.phase = "match"

\* C19: every started run ends: it reaches Done or Failed.
RunTerminates == <>(stage \in {"Done", "Failed"})

\* the order of the stages as claimed
ClaimedOrder ==
    <<"Upload", "WaitUploadTranscode", "PlaceOnTimeline", "RenameProject", "ZoomIn",
      "PositionOnTrack2", "PlayheadReset", "ZoomOut", "Trim", "Split",
      "SelectRightSegment", "DeleteRightSegment", "SelectRegion", "CutoutInvoked",
      "CutoutEnabled", "WaitCutoutComplete", "ExportInvoked", "DownloadInvoked",
      "ExportConfirmed", "WaitDownloadReady", "Done">>

\* C20: the stages of a job run one at a time in the claimed order: a stage
\* is followed by the next one of the order or by the failure of the job, and
\* a run that is done or has failed runs no stage.
StagesInOrder ==
    [][stage' # stage =>
          /\ stage \notin {"Done", "Failed"}
          /\ \/ stage' \in {"UploadCatch", "Failed"}
             \/ stage = "idle" /\ stage' = ClaimedOrder[1]
             \/ \E i \in 1..(Len(ClaimedOrder) - 1) :
                   stage = ClaimedOrder[i] /\ stage' = ClaimedOrder[i + 1]
          /\ stage = "UploadCatch" => stage' = "Failed"]_vars

StagesInOrderWitness ==
    /\ stage = "Done"
    /\ download.ready
    /\ missed = {}

\* ---- properties of the failure handler --------------------------------------
\* C21: a job that fails after its admission goes through the cleanup of the
\* catch block (screenshot attempt, then closeEditorTab: release and close)
\* before its error is raised to the caller, whichever step failed and even
\* when the screenshot fails.
CleanupBeforeRethrow ==
    [][\A j \in Jobs :
          (pc[j] # "failed" /\ pc'[j] = "failed" /\ editorUrl[j] # NoUrl)
          => pc[j] = "cleanupClose"]_vars

\* C22: the error a failed run raises to its caller is the error of the step
\* that failed, never one produced by the screenshot or the cleanup of the
\* catch block.
FailureReasonPreserved ==
    [][\A j \in Jobs :
          (pc[j] \in {"catch", "cleanupClose"} /\ pc'[j] = "failed")
          => raised'[j] = err[j]]_vars

\* ---- properties of the registry and of the browser handle -------------------
\* C28: a status change writes back the list it read with only the status of
\* the record whose url is the given one changed: the list keeps its length and
\* order, every other record and every url is as before, and a url that
\* matches no record leaves the list as it was.
StatusChangeFrame ==
    \A n \in DOMAIN regLog :
        LET call == regLog[n]
        IN  /\ DOMAIN call.after = DOMAIN call.before
            /\ \A i \in DOMAIN call.before :
                  call.after[i] =
                      IF call.before[i].url = call.url
                      THEN [call.before[i] EXCEPT !.status = call.status]
                      ELSE call.before[i]
            /\ MatchingIndexes(call.before, call.url) = {} => call.after = call.before

StatusChangeFrameWitness ==
    \E n, m \in DOMAIN regLog :
        /\ MatchingIndexes(regLog[n].before, regLog[n].url) # {}
        /\ regLog[n].after # regLog[n].before
        /\ \E i \in DOMAIN regLog[n].before :
              /\ regLog[n].before[i].url # regLog[n].url
              /\ regLog[n].before[i].status # regLog[n].status
        /\ MatchingIndexes(regLog[m].before, regLog[m].url) = {}

\* C29: one browser handle. A browser is launched only when no healthy browser
\* exists, and two jobs never have a launch in progress at the same time.
SingleBrowser ==
    /\ [](Cardinality({j \in Jobs : pc[j] = "launch"}) <= 1)
    /\ [][nBrowsers' > nBrowsers => ~CanReuse]_vars

\* ---- properties of the upload endpoint --------------------------------------
\* C25: a request that arrives while the registry shows no available editor is
\* answered in the same step with 423 (locked), and only such a request is;
\* runAutomationPipeline is never called for it: it leases no editor, touches
\* no browser, raises no error and its answer stays 423.
LockedRejection ==
    /\ [][\A j \in Jobs :
             Admission(j) =>
                /\ NumAvailable(editors) = 0 <=> HttpStatus(pc'[j]) = 423
                /\ HttpStatus(pc'[j]) = 423 =>
                      UNCHANGED <<editors, leases, browserVars, editorUrl, browser,
                                  err, raised, probed, launched, closeTarget>>]_vars
    /\ [][\A j \in Jobs : pc[j] = "locked" => pc'[j] = "locked"]_vars
    /\ [](\A j \in Jobs :
             pc[j] = "locked" =>
                /\ editorUrl[j] = NoUrl /\ browser[j] = NoBrowser
                /\ raised[j] = "none" /\ err[j] = "none")

LockedRejectionWitness ==
    \E j, k \in Jobs :
        /\ HttpStatus(pc[j]) = 423
        /\ NumAvailable(editors) = 0
        /\ Holding(k)

\* ---- properties of the input check, the cutout wait and the caller -----------
\* C24: the input file is tested before the workflow starts. A job whose
\* input file does not exist fails at the test with VideoFileNotFound and
\* runs no stage: nothing is uploaded, polled, located or exported. A job
\* whose file exists passes the test and starts with Upload.
InputChecked ==
    /\ [](~videoExists =>
             /\ stage \in {"idle", "Failed"}
             /\ stage = "Failed" => (flowErr = "VideoFileNotFound" /\ failedAt = "idle")
             /\ overlay = Unseen /\ elapsedTime = 0
             /\ tried = <<>> /\ located = <<>> /\ missed = {}
             /\ trim = NoTrim /\ naming = NoNaming /\ download = NoDownload
             /\ cutout = NoCutout)
    /\ [](flowErr = "VideoFileNotFound" => ~videoExists)
    /\ [][(stage = "idle" /\ stage' # "idle")
             => stage' = (IF videoExists THEN "Upload" ELSE "Failed")]_vars

InputCheckedWitness ==
    /\ ~videoExists
    /\ stage = "Failed"
    /\ flowErr = "VideoFileNotFound"
    /\ response = 500

\* C26: in the directory-diff strategy the baseline listing is taken before
\* the download is triggered, so the file the browser saves for this job is
\* never part of the baseline.
BaselineBeforeTrigger ==
    download.phase = "diff" => OutputName \notin download.filesBefore

\* the stages that follow the wait for the background removal
AfterCutout ==
    {"ExportInvoked", "DownloadInvoked", "ExportConfirmed", "WaitDownloadReady", "Done"}

\* C30: the export starts only after an evaluation of the cutout wait has seen
\* a switch that is checked and not loading. The wait evaluates every 5 s and
\* lasts less than 7 minutes; when it has seen no such switch by then the job
\* fails, and a job that failed in the wait never reaches Export, Download or
\* the confirmation.
ExportAfterCutout ==
    /\ [](stage \in AfterCutout => (cutout.switch.checked /\ ~cutout.switch.loading))
    /\ [](stage = "WaitCutoutComplete" =>
             (cutout.elapsed < 7 * 60 * 1000
              /\ ~(cutout.switch.checked /\ ~cutout.switch.loading)))
    /\ [](failedAt = "WaitCutoutComplete" => stage = "Failed")
    /\ [][stage = "WaitCutoutComplete" =>
             \/ /\ stage' = "WaitCutoutComplete"
                /\ cutout'.elapsed = cutout.elapsed + 5000
                /\ cutout'.elapsed < 7 * 60 * 1000
             \/ /\ stage' = "ExportInvoked"
                /\ cutout'.switch.checked /\ ~cutout'.switch.loading
             \/ /\ stage' = "Failed"
                /\ flowErr' = "CutoutTimeout" => cutout.elapsed + 5000 >= 7 * 60 * 1000]_vars
    /\ [][(stage' = "ExportInvoked" /\ stage # "ExportInvoked")
             => stage = "WaitCutoutComplete"]_vars

ExportAfterCutoutWitness ==
    /\ stage = "Failed"
    /\ failedAt = "WaitCutoutComplete"
    /\ flowErr = "CutoutTimeout"
    /\ response = 500

\* the stages that follow the background removal: export and download
ExportStages == AfterCutout \ {"Done"}

\* the caller has been told that the job failed
JobFailed == response = 500

\* C23: on a failed job the catalog status is set to 'filed' exactly when the
\* failure occurred after the background removal had completed, that is in an
\* export or download stage.
FailureClassified ==
    JobFailed =>
        ((\E n \in DOMAIN catalog : catalog[n] = "filed") <=> failedAt \in ExportStages)

\* the background removal of this job has completed
EffectComplete == stage \in AfterCutout \/ failedAt \in ExportStages

\* the milestones reached so far: admission (the workflow is entered only after
\* it), completion of the effect, failure of the export
MilestonesReached ==
    1 + (IF EffectComplete THEN 1 ELSE 0)
      + (IF JobFailed /\ failedAt \in ExportStages THEN 1 ELSE 0)

\* C27: the catalog's status update is called once after the admission, once
\* after the effect completes and once when the export fails, each call only
\* after its milestone: when the workflow runs the first call has been made,
\* when the export starts the second, and there are never more calls than
\* milestones reached.
StatusAtMilestones ==
    /\ stage # "idle" => Len(catalog) >= 1
    /\ EffectComplete => Len(catalog) >= 2
    /\ (JobFailed /\ failedAt \in ExportStages) => Len(catalog) >= 3
    /\ Len(catalog) <= MilestonesReached

\* C31: the waits of WaitDownloadReady end in a failure once their bound has
\* passed: a turn of the link wait taken after exportTimeout fails the job with
\* NoDownloadLink, and a turn of the file wait (new file or named file) taken
\* after downloadWaitTimeout fails the job; the job does not go on waiting and
\* does not reach Done
DownloadWaitFails ==
    [][/\ (stage = "WaitDownloadReady" /\ download.phase = "link"
           /\ download.exportElapsed >= exportTimeout)
          => (stage' = "Failed" /\ flowErr' = "NoDownloadLink")
       /\ (stage = "WaitDownloadReady" /\ download.phase # "link"
           /\ download.waitElapsed >= downloadWaitTimeout)
          => stage' = "Failed"]_vars

\* C32: the run is at line 1272, or has returned to its caller, only after a
\* DOWNLOADED event of this run (line 1153 for a new file, line 1239 for the
\* named file) set downloadReady; Done is never reported with downloadReady false
DoneNeedsDownload ==
    (stage = "Done" \/ response = HttpStatus("done"))
        => /\ download.ready
           /\ download.by \in {"diff", "match"}

\* a run has returned after the named file was reported
DoneNeedsDownloadWitness ==
    /\ response = HttpStatus("done")
    /\ download.ready
    /\ download.by = "match"

\* C33: whenever a locator strategy of Delete is attempted, Split was located
\* before (it is not among the actions that failed) and the right-hand
\* segment has been clicked at the canvas' right edge minus the inset of 100
DeleteAfterSelect ==
    [][(stage = "DeleteRightSegment" /\ tried' # tried)
         => /\ "Split" \notin missed
            /\ trim.scanned
            /\ trim.rightClickX2 = trim.canvasX2 + 2 * trim.canvasWidth - 200]_vars

\* Delete has been attempted after the click for a canvas at x = 20
DeleteAfterSelectWitness ==
    /\ stage = "DeleteRightSegment"
    /\ tried # <<>>
    /\ trim.canvasX2 = 40
    /\ trim.rightClickX2 = 2240

\* C39: a drag of the trim stage goes from the handle position that the scan
\* found to x = handleX + dragDistance on the same y; when the canvas origin
\* is a whole number of pixels that x is canvasX + 900, the clip is then
\* exactly 30 s x 30 px/s wide
DragReachesTarget ==
    [][trim'.drags = trim.drags + 1
         => /\ trim.dragDistance > 0
            /\ trim'.dragFrom = <<trim.handleX, trim.handleY>>
            /\ trim'.dragTo = <<trim.handleX + trim.dragDistance, trim.handleY>>
            /\ trim.canvasX2 % 2 = 0
                  => 2 * trim'.dragTo[1] - trim.canvasX2 = 2 * (30 * 30)]_vars

\* a clip of 80 px on a canvas at x = 20 has been dragged to x = 920
DragReachesTargetWitness ==
    /\ trim.drags = 1
    /\ trim.canvasX2 = 40
    /\ trim.dragFrom[1] = 100
    /\ trim.dragTo[1] = 920

\* C34: the page a failed job's cleanup closes (lines 1295-1303) is never the
\* page of another job that is going through its workflow
CleanupClosesOwnPage ==
    \A j \in Jobs :
        pc[j] = "cleanupClose"
            => ~(/\ closeTarget[j] \in Jobs \ {j}
                 /\ pc[closeTarget[j]] = "workflow")

\* C35: no lost update. A step of a job that writes the registry changes one
\* record and leaves every other record as it was stored, so the status
\* another job has written is never reverted; an admission leaves the record
\* of the editor it took in-use
NoLostUpdate ==
    [][/\ Len(editors') = Len(editors)
       /\ \A i \in 1..NumEditors :
             editors'[i] # editors[i]
                => \A k \in 1..NumEditors \ {i} : editors'[k] = editors[k]
       /\ \A j \in Jobs :
             (Admission(j) /\ editorUrl'[j] # NoUrl)
                => StatusOf(editors', editorUrl'[j]) = "in-use"]_vars

\* two jobs run at the same time, each has changed the status of its own
\* editor, and both changes are in the registry
NoLostUpdateWitness ==
    \E j, k \in Jobs :
        /\ j # k
        /\ pc[j] = "workflow" /\ pc[k] = "workflow"
        /\ editorUrl[j] # editorUrl[k]
        /\ StatusOf(editors, editorUrl[j]) = "in-use"
        /\ StatusOf(editors, editorUrl[k]) = "in-use"

\* C36: an admission that fails with 'No editors available' settles the run at
\* once: the catch block awaits nothing (no browser.pages(), no screenshot, no
\* closeEditorTab), every registry record keeps its status and every page of
\* every browser stays open
AdmissionFailureFrame ==
    [][\A j \in Jobs :
          (Admission(j) /\ NumAvailable(editors) = 0)
          => /\ pc'[j] \notin {"catch", "cleanupClose"}
             /\ raised'[j] = "NoEditors"
             /\ closeTarget'[j] = 0
             /\ editors' = editors
             /\ leases' = leases
             /\ pages' = pages]_vars

\* a run has failed at its admission while another job's editor page is open
\* in a browser with more than one page, the case in which the tab cleanup of
\* the catch block would close a page
AdmissionFailureFrameWitness ==
    \E j \in Jobs : \E b \in 1..MaxBrowsers :
        /\ pc[j] = "failed" /\ raised[j] = "NoEditors"
        /\ b <= nBrowsers /\ connected[b]
        /\ Len(pages[b]) > 1
        /\ CapcutPages(pages[b]) # {}

\* C37: in the wait for the named file, the file that is reported as DOWNLOADED
\* has had its own size read on an earlier poll and found unchanged: the size
\* it is compared with was read from that same file, and not during the poll
\* that reports it
StableSizeOfSameFile ==
    (stage = "Done" /\ download.by = "match")
        => /\ download.sizeFrom = download.file
           /\ ~download.samePoll

\* C38: the matcher accepts a directory entry only when its normalized name and
\* the normalized expected name begin with the same character (they share a
\* non-empty prefix); in particular nothing is accepted when the expected name
\* normalizes to the empty string
MatchNeedsCommonPrefix ==
    (names # <<>> /\ names.op = "match" /\ names.isMatch)
        => /\ names.normalizedExpected # <<>>
           /\ names.normalizedFile # <<>>
           /\ names.normalizedFile[1] = names.normalizedExpected[1]

====
